---- MODULE Spec2Model ----
(***************************************************************************)
(* Model of src/local_asr/transcribe_server.py: the Whisper SRT server.    *)
(*                                                                         *)
(* Times are whole milliseconds (the source holds float seconds; 2.0 s is  *)
(* 2000).  Python strings are sequences of one-character strings.  An      *)
(* optional value is None (the empty tuple) or Some(v) (a 1-tuple).        *)
(* One request is followed from its arrival to the end of its handler.     *)
(***************************************************************************)
EXTENDS Integers, Sequences, FiniteSets, TLC

VARIABLES
    pc,            \* position of the handler: idle, opened, written, finally, done
    endpoint,      \* "srt" (/transcribe) or "json" (/transcribe-json)
    hasFilename,   \* file.filename is non-empty
    uploadEmpty,   \* file.file.read() returned no bytes
    pipeKind,      \* how the pipeline call ended: none, result, RuntimeError, Exception
    tmpExists,     \* the NamedTemporaryFile is on disk
    tmpCreated,    \* number of temporary files created so far
    pipeCalls,     \* number of calls made to the recognition pipeline
    chunks,        \* what the pipeline returned under "chunks" (None or Some(list))
    segments,      \* what _build_segments returned (None or Some(list))
    status,        \* HTTP status of the answer, 0 while none is decided
    srt_content,   \* Some(blocks) once _segments_to_srt has rendered
    response,      \* Some([text, segments]) once _segments_to_response ran
    srtSkipsEqual  \* installed srt release skips start = end (older) or not

vars == <<pc, endpoint, hasFilename, uploadEmpty, pipeKind, tmpExists, tmpCreated, pipeCalls, chunks, segments,
          status, srt_content, response, srtSkipsEqual>>

----------------------------------------------------------------------------
(* Bounds and input sets *)

MaxFrags == 3

None == <<>>

Some(v) == <<v>>

Get(o) == o[1]

TS(s, e) == Some(<<s, e>>)

Whitespace == {" ", "\n", "\t", "\r"}

Timestamps ==
    { None,
      TS(None, None),
      TS(None, Some(2500)),
      TS(Some(0), None),
      TS(Some(0), Some(2500)),
      TS(Some(2500), None),
      TS(Some(2500), Some(0)),
      TS(Some(2500), Some(2500)),
      TS(Some(2500), Some(3661001)),
      TS(Some(-500), Some(0)) }

Texts ==
    { None,
      Some(<<>>),
      Some(<<" ">>),
      Some(<<" ", "a", " ">>),
      Some(<<"b">>),
      Some(<<"a", "\n", "\n", "b">>) }

Fragments ==
    { [timestamp |-> t, text |-> Some(<<" ", "a", " ">>)] : t \in Timestamps }
    \cup
    { [timestamp |-> TS(Some(0), Some(2500)), text |-> x] : x \in Texts }
    \cup
    { [timestamp |-> TS(Some(2500), None), text |-> Some(<<"b">>)] }

FragLists == UNION { [1..k -> Fragments] : k \in 0..MaxFrags }

PipeOutcomes ==
    { [kind |-> "result", chunks |-> None] }
    \cup { [kind |-> "result", chunks |-> Some(l)] : l \in FragLists }
    \cup { [kind |-> k, chunks |-> None] : k \in {"RuntimeError", "Exception"} }

----------------------------------------------------------------------------
(* str.strip() *)

RECURSIVE LStrip(_)
LStrip(s) ==
    IF s # <<>> /\ Head(s) \in Whitespace THEN LStrip(Tail(s)) ELSE s

RECURSIVE RStrip(_)
RStrip(s) ==
    IF s # <<>> /\ s[Len(s)] \in Whitespace
    THEN RStrip(SubSeq(s, 1, Len(s) - 1))
    ELSE s

Strip(s) == RStrip(LStrip(s))

----------------------------------------------------------------------------
(* _build_segments *)

FragmentText_NoStrip(seg) ==
    IF seg.text = None THEN <<>> ELSE Get(seg.text)

\* (seg.get("text") or "").strip()
FragmentText(seg) ==
    Strip(IF seg.text = None \/ seg.text = Some(<<>>) THEN <<>> ELSE Get(seg.text))

EndOrFallback_Two(start_sec, end_sec) ==
    IF end_sec = None THEN start_sec + 2 ELSE Get(end_sec)

EndOrFallback_Before(start_sec, end_sec) ==
    IF end_sec = None THEN start_sec - 2000 ELSE Get(end_sec)

\* if end_sec is None: end_sec = start_sec + 2.0
EndOrFallback(start_sec, end_sec) ==
    IF end_sec = None THEN start_sec + 2000 ELSE Get(end_sec)

AppendItem_Front(items, item) == <<item>> \o items

\* items.append(item)
AppendItem(items, item) == Append(items, item)

\* the for loop of _build_segments: segs is what is left to visit
RECURSIVE BuildLoop(_, _, _)
BuildLoop(segs, items, index) ==
    IF segs = <<>> THEN items
    ELSE
        LET seg == Head(segs)
            timestamp == seg.timestamp
        IN  IF timestamp = None THEN BuildLoop(Tail(segs), items, index)
            ELSE
                LET start_sec == Get(timestamp)[1]
                    end_sec == Get(timestamp)[2]
                IN  IF start_sec = None THEN BuildLoop(Tail(segs), items, index)
                    ELSE
                        LET end == EndOrFallback(Get(start_sec), end_sec)
                            text == FragmentText(seg)
                        IN  IF text = <<>> THEN BuildLoop(Tail(segs), items, index)
                            ELSE BuildLoop(Tail(segs),
                                           AppendItem(items,
                                               [id |-> index,
                                                start |-> Get(start_sec),
                                                end |-> end,
                                                text |-> text]),
                                           index + 1)

BuildItems_FromZero(segs) == BuildLoop(segs, <<>>, 0)

\* items = []; index = 1; the loop
BuildItems(segs) == BuildLoop(segs, <<>>, 1)

BuildSegments_ReturnsEmpty(result_chunks) ==
    IF result_chunks = None
    THEN [raised |-> TRUE, items |-> <<>>]
    ELSE [raised |-> FALSE, items |-> BuildItems(Get(result_chunks))]

\* _build_segments after the pipeline call: raised is the RuntimeError
BuildSegments(result_chunks) ==
    IF result_chunks = None
    THEN [raised |-> TRUE, items |-> <<>>]
    ELSE LET items == BuildItems(Get(result_chunks))
         IN  IF items = <<>>
             THEN [raised |-> TRUE, items |-> <<>>]
             ELSE [raised |-> FALSE, items |-> items]

----------------------------------------------------------------------------
(* The srt package: timestamps *)

Digit == <<"0", "1", "2", "3", "4", "5", "6", "7", "8", "9">>

RECURSIVE Digits(_)
Digits(n) ==
    IF n < 10 THEN <<Digit[n + 1]>> ELSE Digits(n \div 10) \o <<Digit[(n % 10) + 1]>>

RECURSIVE ZeroFill(_, _)
ZeroFill(s, width) ==
    IF Len(s) >= width THEN s ELSE ZeroFill(<<"0">> \o s, width)

\* "%0<width>d" % n
Pad(n, width) ==
    IF n < 0 THEN <<"-">> \o ZeroFill(Digits(0 - n), width - 1)
    ELSE ZeroFill(Digits(n), width)

\* datetime.timedelta(seconds=...) normalised to days, seconds, sub-second part
Timedelta(ms) ==
    [days |-> ms \div 86400000,
     seconds |-> (ms % 86400000) \div 1000,
     millis |-> ms % 1000]

TimedeltaToSrtTimestamp_NoModulo(ms) ==
    LET td == Timedelta(ms)
        hrs == (td.seconds \div 3600) + td.days * 24
        mins == td.seconds \div 60
        secs == td.seconds % 60
    IN  Pad(hrs, 2) \o <<":">> \o Pad(mins, 2) \o <<":">> \o Pad(secs, 2)
        \o <<",">> \o Pad(td.millis, 3)

\* srt.timedelta_to_srt_timestamp
TimedeltaToSrtTimestamp(ms) ==
    LET td == Timedelta(ms)
        hrs == (td.seconds \div 3600) + td.days * 24
        secs_remainder == td.seconds % 3600
        mins == secs_remainder \div 60
        secs == secs_remainder % 60
    IN  Pad(hrs, 2) \o <<":">> \o Pad(mins, 2) \o <<":">> \o Pad(secs, 2)
        \o <<",">> \o Pad(td.millis, 3)

----------------------------------------------------------------------------
(* The srt package: compose *)

\* Subtitle.__lt__: (start, end, index) compared as tuples
SubtitleLess(a, b) ==
    \/ a.start < b.start
    \/ a.start = b.start /\ a.end < b.end
    \/ a.start = b.start /\ a.end = b.end /\ a.index < b.index

RECURSIVE InsertSorted(_, _)
InsertSorted(sorted, x) ==
    IF sorted = <<>> THEN <<x>>
    ELSE LET last == sorted[Len(sorted)]
         IN  IF SubtitleLess(x, last)
             THEN Append(InsertSorted(SubSeq(sorted, 1, Len(sorted) - 1), x), last)
             ELSE Append(sorted, x)

\* sorted(subtitles): stable, ascending by SubtitleLess
RECURSIVE Sorted(_)
Sorted(subs) ==
    IF subs = <<>> THEN <<>>
    ELSE InsertSorted(Sorted(SubSeq(subs, 1, Len(subs) - 1)), subs[Len(subs)])

\* srt._should_skip_sub; skipEqual tells the releases apart (start >= end
\* in the older ones, start > end in the newer ones)
ShouldSkipSub(sub, skipEqual) ==
    \/ Strip(sub.content) = <<>>
    \/ sub.start < 0
    \/ sub.start > sub.end
    \/ skipEqual /\ sub.start = sub.end

\* the loop of srt.sort_and_reindex over the sorted subtitles
RECURSIVE ReindexLoop(_, _, _, _)
ReindexLoop(sorted, sub_num, skipped_subs, skipEqual) ==
    IF sorted = <<>> THEN <<>>
    ELSE IF ShouldSkipSub(Head(sorted), skipEqual)
         THEN ReindexLoop(Tail(sorted), sub_num + 1, skipped_subs + 1, skipEqual)
         ELSE <<[Head(sorted) EXCEPT !.index = sub_num - skipped_subs]>>
              \o ReindexLoop(Tail(sorted), sub_num + 1, skipped_subs, skipEqual)

\* srt.sort_and_reindex(subtitles, start_index=1, skip=True)
SortAndReindex(subs, skipEqual) ==
    ReindexLoop(Sorted(subs), 1, 0, skipEqual)

RECURSIVE StripNewlines(_)
StripNewlines(s) ==
    IF s # <<>> /\ Head(s) = "\n" THEN StripNewlines(Tail(s))
    ELSE IF s # <<>> /\ s[Len(s)] = "\n"
         THEN StripNewlines(SubSeq(s, 1, Len(s) - 1))
         ELSE s

\* re.sub(r"\n\n+", "\n", s)
RECURSIVE CollapseNewlines(_)
CollapseNewlines(s) ==
    IF Len(s) < 2 THEN s
    ELSE IF s[1] = "\n" /\ s[2] = "\n" THEN CollapseNewlines(Tail(s))
         ELSE <<s[1]>> \o CollapseNewlines(Tail(s))

HasBlankLine(s) ==
    \E i \in 1..(Len(s) - 1) : s[i] = "\n" /\ s[i + 1] = "\n"

\* srt.make_legal_content
MakeLegalContent(content) ==
    IF content # <<>> /\ content[1] # "\n" /\ ~HasBlankLine(content)
    THEN content
    ELSE CollapseNewlines(StripNewlines(content))

Arrow == <<" ", "-", "-", ">", " ">>

\* Subtitle.to_srt(strict=True): one block, the index line kept as a number;
\* the document is index, timing and content lines followed by a blank line
ToSrt(sub) ==
    [index |-> sub.index,
     timing |-> TimedeltaToSrtTimestamp(sub.start) \o Arrow
                \o TimedeltaToSrtTimestamp(sub.end),
     content |-> MakeLegalContent(sub.content)]

\* srt.compose(subtitles) with reindex=True, start_index=1, strict=True
Compose(subs, skipEqual) ==
    LET out == SortAndReindex(subs, skipEqual)
    IN  [k \in 1..Len(out) |-> ToSrt(out[k])]

----------------------------------------------------------------------------
(* _segments_to_srt and _segments_to_response *)

Subtitle_SwappedTimes(seg) ==
    [index |-> seg.id, start |-> seg.end, end |-> seg.start, content |-> seg.text]

\* srt.Subtitle(int(seg["id"]), start, end, str(seg["text"]))
Subtitle(seg) ==
    [index |-> seg.id, start |-> seg.start, end |-> seg.end, content |-> seg.text]

SegmentsToSrt(segs, skipEqual) ==
    Compose([k \in 1..Len(segs) |-> Subtitle(segs[k])], skipEqual)

\* " ".join(parts)
RECURSIVE JoinSpace(_)
JoinSpace(parts) ==
    IF parts = <<>> THEN <<>>
    ELSE IF Len(parts) = 1 THEN parts[1]
         ELSE parts[1] \o <<" ">> \o JoinSpace(Tail(parts))

RECURSIVE JoinEmpty(_)
JoinEmpty(parts) ==
    IF parts = <<>> THEN <<>> ELSE parts[1] \o JoinEmpty(Tail(parts))

SegmentsToResponse_NoSeparator(segs) ==
    [text |-> Strip(JoinEmpty([k \in 1..Len(segs) |-> Strip(segs[k].text)])),
     segments |-> segs]

SegmentsToResponse(segs) ==
    [text |-> Strip(JoinSpace([k \in 1..Len(segs) |-> Strip(segs[k].text)])),
     segments |-> segs]

----------------------------------------------------------------------------
(* The request handlers transcribe and transcribe_json *)

Init ==
    /\ pc = "idle"
    /\ endpoint = "none"
    /\ hasFilename = FALSE
    /\ uploadEmpty = FALSE
    /\ pipeKind = "none"
    /\ tmpExists = FALSE
    /\ tmpCreated = 0
    /\ pipeCalls = 0
    /\ chunks = None
    /\ segments = None
    /\ status = 0
    /\ srt_content = None
    /\ response = None
    /\ srtSkipsEqual \in BOOLEAN

\* the filename check and tempfile.NamedTemporaryFile(delete=False)
Receive ==
    /\ pc = "idle"
    /\ \E ep \in {"srt", "json"}, named \in BOOLEAN :
        /\ endpoint' = ep
        /\ hasFilename' = named
        /\ IF ~named
           THEN /\ status' = 400
                /\ pc' = "done"
                /\ UNCHANGED <<tmpExists, tmpCreated>>
           ELSE /\ tmpExists' = TRUE
                /\ tmpCreated' = tmpCreated + 1
                /\ pc' = "opened"
                /\ UNCHANGED status
    /\ UNCHANGED <<uploadEmpty, pipeKind, pipeCalls, chunks, segments,
                   srt_content, response, srtSkipsEqual>>

\* content = file.file.read(); the empty check; tmp.write; tmp.close
ReadUpload ==
    /\ pc = "opened"
    /\ \E empty \in BOOLEAN :
        /\ uploadEmpty' = empty
        /\ IF empty
           THEN /\ status' = 400
                /\ pc' = "finally"
           ELSE /\ pc' = "written"
                /\ UNCHANGED status
    /\ UNCHANGED <<endpoint, hasFilename, pipeKind, tmpExists, tmpCreated,
                   pipeCalls, chunks, segments, srt_content, response,
                   srtSkipsEqual>>

\* /transcribe: _run_transcription in its try/except, then the Response
RunTranscription ==
    /\ pc = "written"
    /\ endpoint = "srt"
    /\ \E o \in PipeOutcomes :
        /\ pipeKind' = o.kind
        /\ pipeCalls' = pipeCalls + 1
        /\ chunks' = o.chunks
        /\ IF o.kind = "Exception"
           THEN /\ status' = 500
                /\ UNCHANGED <<segments, srt_content>>
           ELSE IF o.kind = "RuntimeError"
           THEN /\ status' = 400
                /\ UNCHANGED <<segments, srt_content>>
           ELSE LET built == BuildSegments(o.chunks)
                IN  IF built.raised
                    THEN /\ status' = 400
                         /\ UNCHANGED <<segments, srt_content>>
                    ELSE /\ segments' = Some(built.items)
                         /\ srt_content' =
                                Some(SegmentsToSrt(built.items, srtSkipsEqual))
                         /\ status' = 200
    /\ pc' = "finally"
    /\ UNCHANGED <<endpoint, hasFilename, uploadEmpty, tmpExists, tmpCreated,
                   response, srtSkipsEqual>>

\* /transcribe-json: _build_segments in its try/except, then the response
BuildAndRespond ==
    /\ pc = "written"
    /\ endpoint = "json"
    /\ \E o \in PipeOutcomes :
        /\ pipeKind' = o.kind
        /\ pipeCalls' = pipeCalls + 1
        /\ chunks' = o.chunks
        /\ IF o.kind = "Exception"
           THEN /\ status' = 500
                /\ UNCHANGED <<segments, response>>
           ELSE IF o.kind = "RuntimeError"
           THEN /\ status' = 400
                /\ UNCHANGED <<segments, response>>
           ELSE LET built == BuildSegments(o.chunks)
                IN  IF built.raised
                    THEN /\ status' = 400
                         /\ UNCHANGED <<segments, response>>
                    ELSE /\ segments' = Some(built.items)
                         /\ response' = Some(SegmentsToResponse(built.items))
                         /\ status' = 200
    /\ pc' = "finally"
    /\ UNCHANGED <<endpoint, hasFilename, uploadEmpty, tmpExists, tmpCreated,
                   srt_content, srtSkipsEqual>>

Finally_OnlyOnSuccess ==
    /\ pc = "finally"
    /\ tmpExists' = (tmpExists /\ status # 200)
    /\ pc' = "done"
    /\ UNCHANGED <<endpoint, hasFilename, uploadEmpty, pipeKind, tmpCreated,
                   pipeCalls, chunks, segments, status, srt_content, response,
                   srtSkipsEqual>>

\* finally: os.unlink(tmp_path), an OSError being swallowed
Finally ==
    /\ pc = "finally"
    /\ tmpExists' = FALSE
    /\ pc' = "done"
    /\ UNCHANGED <<endpoint, hasFilename, uploadEmpty, pipeKind, tmpCreated,
                   pipeCalls, chunks, segments, status, srt_content, response,
                   srtSkipsEqual>>

Next ==
    \/ Receive
    \/ ReadUpload
    \/ RunTranscription
    \/ BuildAndRespond
    \/ Finally

Spec == Init /\ [][Next]_vars

----------------------------------------------------------------------------
(* What the properties are stated in: the fragments a list should keep *)

HasStart(f) == f.timestamp # None /\ Get(f.timestamp)[1] # None

HasText(f) == f.text # None /\ \E i \in 1..Len(Get(f.text)) : Get(f.text)[i] \notin Whitespace

Accepted(f) == HasStart(f) /\ HasText(f)

AcceptedIdx(l) == { i \in 1..Len(l) : Accepted(l[i]) }

\* position in l of its k-th accepted fragment
Origin(l, k) ==
    CHOOSE i \in AcceptedIdx(l) : Cardinality({ j \in AcceptedIdx(l) : j <= i }) = k

StartOf(f) == Get(Get(f.timestamp)[1])

EndOf(f) == Get(f.timestamp)[2]

\* the text between the first and the last non-whitespace character
Trimmed(t) ==
    LET ink == { i \in 1..Len(t) : t[i] \notin Whitespace }
    IN  IF ink = {} THEN <<>>
        ELSE SubSeq(t, CHOOSE i \in ink : \A j \in ink : i <= j,
                       CHOOSE i \in ink : \A j \in ink : i >= j)

Called == pc \in {"finally", "done"} /\ pipeKind = "result"

Built == Called /\ segments # None

----------------------------------------------------------------------------
\* C1: the ids emitted by _build_segments are exactly 1..N, N the number of
\* accepted fragments: the k-th emitted segment has id k however many
\* dropped fragments come before it or between accepted ones.
C1_IdsSequential ==
    Built =>
        LET s == Get(segments)
            l == Get(chunks)
        IN  /\ Len(s) = Cardinality(AcceptedIdx(l))
            /\ \A k \in 1..Len(s) : s[k].id = k
            /\ { s[k].id : k \in 1..Len(s) } = 1..Cardinality(AcceptedIdx(l))

C1_Witness ==
    /\ Built
    /\ Len(Get(chunks)) = 3
    /\ Accepted(Get(chunks)[1])
    /\ ~Accepted(Get(chunks)[2])
    /\ Accepted(Get(chunks)[3])
    /\ Get(segments)[2].id = 2

\* C2: a fragment is emitted if and only if it has a timestamp, a non-null
\* start and a text that is non-empty once trimmed; what is emitted carries
\* the trimmed text.
C2_EmittedIffUsable ==
    Built =>
        LET s == Get(segments)
            l == Get(chunks)
        IN  /\ Len(s) = Cardinality({ i \in 1..Len(l) :
                            /\ l[i].timestamp # None
                            /\ Get(l[i].timestamp)[1] # None
                            /\ l[i].text # None
                            /\ Trimmed(Get(l[i].text)) # <<>> })
            /\ \A k \in 1..Len(s) :
                /\ s[k].text # <<>>
                /\ s[k].text = Trimmed(Get(l[Origin(l, k)].text))
                /\ s[k].text[1] \notin Whitespace
                /\ s[k].text[Len(s[k].text)] \notin Whitespace

C2_Witness ==
    /\ Built
    /\ Len(Get(chunks)) = 3
    /\ Get(chunks)[1].timestamp = None
    /\ Get(chunks)[2].text = Some(<<" ">>)
    /\ Get(chunks)[3].text = Some(<<" ", "a", " ">>)
    /\ Len(Get(segments)) = 1
    /\ Get(segments)[1].text = <<"a">>

\* C3: an accepted fragment with start s and a null end is emitted with
\* start s and end s + 2000 ms; one with an end is emitted with its start
\* and end unchanged.
C3_FallbackEnd ==
    Built =>
        LET s == Get(segments)
            l == Get(chunks)
        IN  \A k \in 1..Len(s) :
                LET f == l[Origin(l, k)]
                IN  /\ s[k].start = StartOf(f)
                    /\ EndOf(f) = None => s[k].end = StartOf(f) + 2000
                    /\ EndOf(f) # None => s[k].end = Get(EndOf(f))

C3_Witness ==
    /\ Built
    /\ Len(Get(chunks)) = 2
    /\ Get(chunks)[1].timestamp = TS(Some(0), Some(2500))
    /\ Get(chunks)[2].timestamp = TS(Some(2500), None)
    /\ Len(Get(segments)) = 2
    /\ Get(segments)[2].start = 2500
    /\ Get(segments)[2].end = 4500

\* C4: _build_segments never returns an empty or partial list: when every
\* fragment is dropped (an empty collection included) or there is no
\* collection, it raises and the request is answered 400; when it returns,
\* the list is non-empty and holds every accepted fragment.
C4_EmptyResultFails ==
    Called =>
        /\ (chunks = None \/ AcceptedIdx(Get(chunks)) = {})
                => segments = None /\ status = 400
        /\ (chunks # None /\ AcceptedIdx(Get(chunks)) # {})
                => /\ segments # None
                   /\ Get(segments) # <<>>
                   /\ Len(Get(segments)) = Cardinality(AcceptedIdx(Get(chunks)))

C4_Witness ==
    /\ Called
    /\ chunks # None
    /\ Len(Get(chunks)) = 1
    /\ Get(chunks)[1].timestamp = TS(None, None)
    /\ segments = None
    /\ status = 400

\* C5 as stated: every emitted segment has end >= start.
C5_Original ==
    Built => \A k \in 1..Len(Get(segments)) :
                Get(segments)[k].end >= Get(segments)[k].start

\* C5: an emitted segment has end >= start whenever its fragment had a null
\* end or an end >= its start; a fragment whose end is below its start is
\* emitted with that inverted timing.
C5_EndNotBeforeStart ==
    Built =>
        LET s == Get(segments)
            l == Get(chunks)
        IN  \A k \in 1..Len(s) :
                LET f == l[Origin(l, k)]
                IN  IF EndOf(f) = None \/ Get(EndOf(f)) >= StartOf(f)
                    THEN s[k].end >= s[k].start
                    ELSE s[k].end < s[k].start

C5_Witness ==
    /\ Built
    /\ Len(Get(segments)) = 2
    /\ Get(chunks)[1].timestamp = TS(Some(0), None)
    /\ Get(segments)[1].end = 2000
    /\ Get(segments)[2].end < Get(segments)[2].start

----------------------------------------------------------------------------
(* Reading a rendered timing line back *)

DigitValue(c) == CHOOSE d \in 0..9 : Digit[d + 1] = c

IsDigit(c) == \E d \in 0..9 : Digit[d + 1] = c

RECURSIVE Number(_)
Number(t) ==
    IF t = <<>> THEN 0
    ELSE 10 * Number(SubSeq(t, 1, Len(t) - 1)) + DigitValue(t[Len(t)])

\* t is HH:MM:SS,mmm with minutes and seconds in 0..59
IsStamp(t) ==
    /\ Len(t) = 12
    /\ t[3] = ":" /\ t[6] = ":" /\ t[9] = ","
    /\ \A i \in {1, 2, 4, 5, 7, 8, 10, 11, 12} : IsDigit(t[i])
    /\ Number(SubSeq(t, 4, 5)) \in 0..59
    /\ Number(SubSeq(t, 7, 8)) \in 0..59

StampMillis(t) ==
    ((Number(SubSeq(t, 1, 2)) * 60 + Number(SubSeq(t, 4, 5))) * 60
        + Number(SubSeq(t, 7, 8))) * 1000 + Number(SubSeq(t, 10, 12))

IsTimingLine(line) ==
    /\ Len(line) = 29
    /\ IsStamp(SubSeq(line, 1, 12))
    /\ SubSeq(line, 13, 17) = <<" ", "-", "-", ">", " ">>
    /\ IsStamp(SubSeq(line, 18, 29))

LineStart(line) == StampMillis(SubSeq(line, 1, 12))

LineEnd(line) == StampMillis(SubSeq(line, 18, 29))

Rendered == pc \in {"finally", "done"} /\ srt_content # None

\* the list is in non-decreasing (start, end) order, every segment starts at
\* or after 0 and ends after it starts, and no text holds a blank line
Orderly(s) ==
    /\ \A k \in 1..Len(s) :
        /\ 0 <= s[k].start
        /\ s[k].start < s[k].end
        /\ ~\E i \in 1..(Len(s[k].text) - 1) :
                s[k].text[i] = "\n" /\ s[k].text[i + 1] = "\n"
    /\ \A k \in 1..(Len(s) - 1) :
        \/ s[k].start < s[k + 1].start
        \/ s[k].start = s[k + 1].start /\ s[k].end <= s[k + 1].end

\* C6 as stated: one block per segment of any list _build_segments
\* produced, in list order, the k-th block carrying the k-th id and text.
C6_Original ==
    Rendered =>
        LET s == Get(segments)
            b == Get(srt_content)
        IN  /\ Len(b) = Len(s)
            /\ \A k \in 1..Len(s) :
                b[k].index = s[k].id /\ b[k].content = s[k].text

\* C6: for a list _build_segments produced that is in non-decreasing
\* (start, end) order, whose segments have 0 <= start < end and whose texts
\* hold no blank line, _segments_to_srt renders one block per segment in
\* list order, the k-th block carrying the k-th id, text and times.
C6_OneBlockPerSegment ==
    (Rendered /\ Orderly(Get(segments))) =>
        LET s == Get(segments)
            b == Get(srt_content)
        IN  /\ Len(b) = Len(s)
            /\ \A k \in 1..Len(s) :
                /\ b[k].index = s[k].id
                /\ b[k].content = s[k].text
                /\ LineStart(b[k].timing) = s[k].start
                /\ LineEnd(b[k].timing) = s[k].end

C6_Witness ==
    /\ Rendered
    /\ Orderly(Get(segments))
    /\ Len(Get(segments)) = 3
    /\ Len(Get(srt_content)) = 3
    /\ Get(segments)[1].text # Get(segments)[2].text
    /\ Get(segments)[2].start < Get(segments)[3].start
    /\ Get(srt_content)[3].index = 3

\* C7: the emitted segments are the accepted fragments in their input
\* order, none repeated, so accepted fragments in non-decreasing start
\* order give segments in non-decreasing start order.
C7_InputOrderKept ==
    Built =>
        LET s == Get(segments)
            l == Get(chunks)
            acc == [k \in 1..Cardinality(AcceptedIdx(l)) |-> l[Origin(l, k)]]
        IN  /\ [k \in 1..Len(s) |-> <<s[k].start, s[k].text>>]
                = [k \in 1..Len(acc) |-> <<StartOf(acc[k]), Trimmed(Get(acc[k].text))>>]
            /\ (\A k \in 1..(Len(acc) - 1) : StartOf(acc[k]) <= StartOf(acc[k + 1]))
                    => \A k \in 1..(Len(s) - 1) : s[k].start <= s[k + 1].start

C7_Witness ==
    /\ Built
    /\ Len(Get(chunks)) = 3
    /\ Len(Get(segments)) = 3
    /\ Get(segments)[1].start < Get(segments)[2].start
    /\ Get(segments)[2].start = Get(segments)[3].start
    /\ Get(segments)[2].text # Get(segments)[3].text

RECURSIVE JoinedUpTo(_, _)
JoinedUpTo(s, n) ==
    IF n = 0 THEN <<>>
    ELSE IF n = 1 THEN Trimmed(s[1].text)
         ELSE JoinedUpTo(s, n - 1) \o <<" ">> \o Trimmed(s[n].text)

\* C8: _segments_to_response returns as text the segments' trimmed texts
\* joined by one space in list order, without leading or trailing
\* whitespace, and as segments the list it was given, unchanged.
C8_TranscriptJoin ==
    (pc \in {"finally", "done"} /\ response # None) =>
        LET r == Get(response)
            s == Get(segments)
        IN  /\ r.text = JoinedUpTo(s, Len(s))
            /\ r.text # <<>>
            /\ r.text[1] \notin Whitespace
            /\ r.text[Len(r.text)] \notin Whitespace
            /\ r.segments = s

C8_Witness ==
    /\ pc = "done"
    /\ response # None
    /\ Len(Get(segments)) = 2
    /\ Get(response).text = <<"a", " ", "b">>
    /\ Get(response).segments = Get(segments)

\* C9: every timing line _segments_to_srt renders is
\* HH:MM:SS,mmm --> HH:MM:SS,mmm, two digits each for hours, minutes (0..59)
\* and seconds (0..59) and three for milliseconds; the two stamps read back
\* as the start and end of a segment of the list, and start 0 ms with end
\* 2500 ms renders as 00:00:00,000 --> 00:00:02,500.
C9_TimingLine ==
    Rendered =>
        LET s == Get(segments)
            b == Get(srt_content)
        IN  /\ \A k \in 1..Len(b) :
                /\ IsTimingLine(b[k].timing)
                /\ \E j \in 1..Len(s) :
                    /\ s[j].start = LineStart(b[k].timing)
                    /\ s[j].end = LineEnd(b[k].timing)
            /\ (Len(s) = 1 /\ s[1].start = 0 /\ s[1].end = 2500)
                => /\ Len(b) = 1
                   /\ b[1].timing =
                        <<"0", "0", ":", "0", "0", ":", "0", "0", ",", "0", "0", "0",
                          " ", "-", "-", ">", " ",
                          "0", "0", ":", "0", "0", ":", "0", "2", ",", "5", "0", "0">>

C9_Witness ==
    /\ Rendered
    /\ Len(Get(srt_content)) = 2
    /\ LineStart(Get(srt_content)[1].timing) = 0
    /\ LineEnd(Get(srt_content)[1].timing) = 2500
    /\ SubSeq(Get(srt_content)[2].timing, 18, 29)
            = <<"0", "1", ":", "0", "1", ":", "0", "1", ",", "0", "0", "1">>

====
